---- MODULE Spec2Model ----
(***************************************************************************)
(* Model of the bdcw backend: the per-entity batch-import views, the audit *)
(* triggers they toggle, token authentication and the permission classes.  *)
(*                                                                         *)
(* A batch-import request is a process whose steps are the database        *)
(* statements of its view's post(): the validation loop, the lookup of     *)
(* existing rows, and per chunk ALTER TABLE .. DISABLE TRIGGER, the        *)
(* bulk_create inside transaction.atomic(), ALTER TABLE .. ENABLE TRIGGER, *)
(* and finally BatchLog.save().  Requests of different connections         *)
(* interleave between statements.                                          *)
(***************************************************************************)
EXTENDS Integers, Sequences, FiniteSets, TLC

\* ---------------------------------------------------------------- bounds
MaxItems == 3          \* items of the request, one request at a time
MaxItemsConc == 2      \* items per request when two requests interleave
MaxBatchSize == 2      \* largest batch_size a request asks for
MaxApiWrites == 1      \* inserts made by non-batch endpoints
MaxLogins == 2         \* tokens issued by login
MaxTime == 48          \* hours the clock runs
MaxUserWrites == 1     \* updates made through the profile and role endpoints
MaxItemsUsers == 1     \* items of the users import next to the user endpoints
MaxObjects == 1        \* goals, habits, progress records and logs created
MaxObjectWrites == 2   \* creates, updates and deletes of those objects

\* ------------------------------------------------------- program constants
ExpiresHours == 24     \* AuthToken.create_token(expires_hours=24)
TickHours == 24        \* granularity of the clock

NULL == 0              \* no user, no token key, app.user_id not set
Requests == {1, 2}
Conns == {1, 2, 3}

Kinds == {"users", "categories", "goals", "goal_progresses", "habits",
          "habit_logs", "subscriptions", "challenges"}

AuditedTables == Kinds \cup {"challenge_categories", "goal_challenges"}

\* Raw values of the key field of an item as they arrive in the JSON body.
\* " a" is "a" with surrounding whitespace (for subscriptions: the ids given
\* as strings instead of integers).
RawKeys == {"a", " a", "b"}

Strip(s) == IF s = " a" THEN "a" ELSE s

\* USERNAME_PATTERN ^[a-zA-Z0-9_]+$ rejects whitespace
UsernameOk(s) == s = Strip(s)

\* ------------------------------------------------------------ per view
\* the view keeps a set of keys seen in this request
DedupInRequest(k) == k \in {"users", "categories", "goals", "habits"}

\* the view looks the keys up among the stored rows
ChecksExisting(k) == k \in {"users", "categories", "goals", "habits", "subscriptions"}

\* key under which the view compares items (in the request and with the rows)
NormKey(k, raw) == IF k = "users" THEN raw ELSE Strip(raw)

\* key the created row is stored with
StoredKey(k, raw) == IF k \in {"categories", "subscriptions"} THEN Strip(raw) ELSE raw

\* unique constraint of the table
HasUnique(k) == k \in {"users", "categories", "subscriptions"}

\* `except Exception` next to `except IntegrityError` around bulk_create
SwallowsOther(k) == k \notin {"users", "categories"}

\* the view slices the accepted items into chunks of batch_size
Chunked(k) == k # "challenges"

TriggersOf(k) ==
    IF k = "challenges" THEN {"challenges", "challenge_categories", "goal_challenges"}
    ELSE {k}

\* ids of the two users of a subscription
SubscriberId(key) == IF key = "a" THEN 1 ELSE 2
SubscribingId(key) == IF key = "a" THEN 2 ELSE 1

Validities(k) ==
    IF k = "users" THEN {"ok", "bad_after"}
    ELSE IF DedupInRequest(k) THEN {"ok", "bad_before", "bad_after"}
    ELSE {"ok", "bad_after"}

KeysOf(k) == IF ChecksExisting(k) THEN RawKeys ELSE {"a"}

\* values of the role field of an item of the users import; the other
\* imports do not read it
RoleInputs == {"user", "admin", "manager"}

\* an item of the request: its key, where its validation fails if it does,
\* and its role field
ItemsOf(k) == [key : KeysOf(k), v : Validities(k), role : RoleInputs]

VARIABLES
    rows,        \* rows[t]: stored rows of table t, [id, key, via]
    nextId,      \* nextId[t]: next value of the id sequence of table t
    trig,        \* trig[t]: audit trigger of table t is enabled
    audit,       \* rows of audit_logs
    batchLogs,   \* rows of batch_logs
    appUserId,   \* appUserId[c]: app.user_id of database connection c
    pc,          \* pc[r]: position of batch request r in post()
    req,         \* req[r]: kind, items and batch_size of batch request r
    log,         \* log[r]: operation_log of batch request r
    validated,   \* validated[r]: indices of the items that passed validation
    filtered,    \* filtered[r]: indices of the items to create
    done,        \* done[r]: number of items of filtered[r] already sliced
    toCreate,    \* toCreate[r]: indices of the objects of the current chunk
    raised,      \* raised[r]: exception propagating out of transaction.atomic()
    heldOff,     \* heldOff[r]: triggers r disabled and has not enabled again
    chunks,      \* chunks[r]: the chunks handed to bulk_create, in order
    stored0,     \* stored0[r]: keys stored in the table when r arrived
    resp,        \* resp[r]: <<the response body>>, empty until returned
    apiWrites,   \* number of inserts made by non-batch endpoints
    tokens,      \* tokens[key]: row of auth_tokens with that key
    now,         \* the clock, in hours
    last,        \* the last request to a token endpoint and its status
    loggedOut,   \* keys of the tokens a successful logout was made with
    accounts,    \* accounts[id]: role, is_active, is_public of users row id
    requester,   \* requester[r]: id of the user batch request r runs as
    owned,       \* goals and habits rows: kind, id, user, is_public
    entries,     \* goal_progresses and habit_logs rows: kind, id, parent, value
    listed       \* the last listing or object request and what it returned

vars == <<rows, nextId, trig, audit, batchLogs, appUserId, pc, req, log,
          validated, filtered, done, toCreate, raised, heldOff, chunks, stored0,
          resp, apiWrites, tokens, now, last, loggedOut, accounts, requester,
          owned, entries, listed>>

batchVars == <<pc, req, log, validated, filtered, done, toCreate, raised,
               heldOff, chunks, stored0, resp>>
authVars == <<tokens, now, last, loggedOut>>
objectVars == <<owned, entries, listed>>
accessVars == <<accounts, requester, owned, entries, listed>>

\* ------------------------------------------------------------- helpers
SeqsUpTo(S, n) == UNION {[1..m -> S] : m \in 1..n}

Min(a, b) == IF a < b THEN a ELSE b

StoredKeys(t) == {row.key : row \in rows[t]}

ErrorEntry(type, error, index) == [type |-> type, error |-> error, index |-> index]

\* the columns role, is_active, is_public of a users row
NewAccount(role, active, public) ==
    [role |-> role, is_active |-> active, is_public |-> public]

\* no listing returned: requester, whether an admin, and the rows returned
NoListing == [user |-> NULL, admin |-> FALSE, items |-> {}]

\* the audit trigger of table t firing for operation op on the rows with
\* the given ids in a session whose app.user_id is userId; nothing when the
\* trigger is disabled
AuditTrigger(t, ids, op, userId) ==
    IF trig[t]
    THEN {[table_name |-> t, record_id |-> i, operation |-> op,
           changed_by |-> userId] : i \in ids}
    ELSE {}

\* operation_log as post() creates it
NewOperationLog(items, bs) ==
    [total_processed |-> Len(items), successful |-> 0, failed |-> 0,
     errors |-> <<>>, created_ids |-> <<>>, batches_processed |-> 0,
     batch_size |-> bs]

\* the validation loop over the items of the request: the indices of the
\* items that pass and the per-item errors of the others
RECURSIVE ValidateLoop(_, _, _, _, _, _)
ValidateLoop(k, items, i, seen, dbkeys, acc) ==
    IF i > Len(items) THEN acc
    ELSE LET it == items[i]
             nk == NormKey(k, it.key)
             early == it.v = "bad_before"
             dup == DedupInRequest(k) /\ nk \in seen
             seen2 == IF DedupInRequest(k) /\ ~early THEN seen \cup {nk} ELSE seen
             exists == k = "users" /\ it.key \in dbkeys
             badName == k = "users" /\ ~UsernameOk(it.key)
             late == it.v = "bad_after"
             why == IF early THEN "invalid"
                    ELSE IF dup THEN "duplicated in request"
                    ELSE IF badName THEN "invalid"
                    ELSE IF exists THEN "already exists"
                    ELSE "invalid"
         IN  ValidateLoop(k, items, i + 1, seen2, dbkeys,
                 IF ~early /\ ~dup /\ ~badName /\ ~exists /\ ~late
                 THEN [acc EXCEPT !.valid = Append(@, i)]
                 ELSE [acc EXCEPT !.errs =
                          Append(@, ErrorEntry("validation_error", why, i))])

\* the loop that compares the validated items with the stored rows
RECURSIVE ExistingLoop(_, _, _, _, _, _)
ExistingLoop(k, items, val, j, existing, acc) ==
    IF j > Len(val) THEN acc
    ELSE ExistingLoop(k, items, val, j + 1, existing,
             IF ChecksExisting(k) /\ NormKey(k, items[val[j]].key) \in existing
             THEN [acc EXCEPT !.errs =
                      Append(@, ErrorEntry("duplicate_error", "already exists", val[j]))]
             ELSE [acc EXCEPT !.valid = Append(@, val[j])])

\* filtered[i:i + batch_size]
Slice(s, from, n) == SubSeq(s, from + 1, Min(Len(s), from + n))

\* batch_size ignored: everything that is left goes into one chunk
ChunkSizeAll(k, bs, remaining) == remaining

\* size of the chunk the view takes next
ChunkSize(k, bs, remaining) == IF Chunked(k) THEN bs ELSE remaining

\* what the view appends to created_ids for the created rows
CreatedIds(k, newRows) ==
    IF k = "subscriptions"
    THEN IF Len(newRows) = 0 THEN <<>>
         ELSE LET F[i \in 1..Len(newRows)] ==
                      (IF i = 1 THEN <<>> ELSE F[i - 1]) \o
                      <<SubscriberId(newRows[i].key), SubscribingId(newRows[i].key)>>
              IN  F[Len(newRows)]
    ELSE [i \in 1..Len(newRows) |-> newRows[i].id]

\* the insert violates a unique constraint of the table
ViolatesUnique(k, keys) ==
    /\ HasUnique(k)
    /\ \/ \E i \in 1..Len(keys) : keys[i] \in StoredKeys(k)
       \/ \E i, j \in 1..Len(keys) : i # j /\ keys[i] = keys[j]

\* ------------------------------------------------ batch import: post()
\* authentication, the validation loop and the early return
Validate(r) ==
    /\ pc[r] = "start"
    /\ LET k == req[r].kind
           res == ValidateLoop(k, req[r].items, 1, {}, StoredKeys(k),
                               [valid |-> <<>>, errs |-> <<>>])
           lg == [log[r] EXCEPT !.failed = Len(res.errs), !.errors = res.errs]
       IN  /\ appUserId' = [appUserId EXCEPT ![r] = requester[r]]
           /\ stored0' = [stored0 EXCEPT ![r] = StoredKeys(k)]
           /\ validated' = [validated EXCEPT ![r] = res.valid]
           /\ log' = [log EXCEPT ![r] = lg]
           /\ IF res.valid = <<>>
              THEN /\ resp' = [resp EXCEPT ![r] = <<lg>>]
                   /\ pc' = [pc EXCEPT ![r] = "done"]
              ELSE /\ resp' = resp
                   /\ pc' = [pc EXCEPT ![r] = "validated"]
    /\ UNCHANGED <<rows, nextId, trig, audit, batchLogs, req, filtered, done,
                   toCreate, raised, heldOff, chunks, apiWrites>>
    /\ UNCHANGED authVars
    /\ UNCHANGED accessVars

\* the query for existing rows, the duplicate_error loop and the early return
CheckExisting(r) ==
    /\ pc[r] = "validated"
    /\ LET k == req[r].kind
           res == ExistingLoop(k, req[r].items, validated[r], 1, StoredKeys(k),
                               [valid |-> <<>>, errs |-> <<>>])
           lg == [log[r] EXCEPT !.failed = @ + Len(res.errs),
                                !.errors = @ \o res.errs]
       IN  /\ filtered' = [filtered EXCEPT ![r] = res.valid]
           /\ log' = [log EXCEPT ![r] = lg]
           /\ IF res.valid = <<>>
              THEN /\ resp' = [resp EXCEPT ![r] = <<lg>>]
                   /\ pc' = [pc EXCEPT ![r] = "done"]
              ELSE /\ resp' = resp
                   /\ pc' = [pc EXCEPT ![r] = "chunk"]
    /\ UNCHANGED <<rows, nextId, trig, audit, batchLogs, appUserId, req,
                   validated, done, toCreate, raised, heldOff, chunks, stored0, apiWrites>>
    /\ UNCHANGED authVars
    /\ UNCHANGED accessVars

\* building the objects of the next chunk and ALTER TABLE .. DISABLE TRIGGER
DisableTrigger(r) ==
    /\ pc[r] = "chunk"
    /\ LET k == req[r].kind
           n == ChunkSize(k, req[r].batch_size, Len(filtered[r]) - done[r])
           batch == Slice(filtered[r], done[r], n)
       IN  /\ toCreate' = [toCreate EXCEPT ![r] = batch]
           /\ done' = [done EXCEPT ![r] = @ + Len(batch)]
           /\ trig' = [t \in AuditedTables |->
                          IF t \in TriggersOf(k) THEN FALSE ELSE trig[t]]
           /\ heldOff' = [heldOff EXCEPT ![r] = @ \cup TriggersOf(k)]
    /\ pc' = [pc EXCEPT ![r] = "bulk"]
    /\ UNCHANGED <<rows, nextId, audit, batchLogs, appUserId, req, log,
                   validated, filtered, raised, chunks, stored0, resp, apiWrites>>
    /\ UNCHANGED authVars
    /\ UNCHANGED accessVars

\* bulk_create raises IntegrityError: counted, logged and raised again
BulkIntegrityError(r) ==
    /\ pc[r] = "bulk"
    /\ LET k == req[r].kind
           tc == toCreate[r]
           keys == [i \in 1..Len(tc) |-> StoredKey(k, req[r].items[tc[i]].key)]
       IN  /\ ViolatesUnique(k, keys)
           /\ log' = [log EXCEPT ![r].failed = @ + Len(tc),
                                 ![r].errors = Append(@,
                                     ErrorEntry("integrity_error", "bulk_create", 0))]
           /\ chunks' = [chunks EXCEPT ![r] = Append(@, tc)]
    /\ raised' = [raised EXCEPT ![r] = "integrity"]
    /\ pc' = [pc EXCEPT ![r] = "enable"]
    /\ UNCHANGED <<rows, nextId, trig, audit, batchLogs, appUserId, req,
                   validated, filtered, done, toCreate, heldOff, stored0, resp, apiWrites>>
    /\ UNCHANGED authVars
    /\ UNCHANGED accessVars

\* bulk_create raises another exception: counted and swallowed where the
\* view has `except Exception`, propagating otherwise
BulkOtherError(r) ==
    /\ pc[r] = "bulk"
    /\ LET k == req[r].kind
           tc == toCreate[r]
           keys == [i \in 1..Len(tc) |-> StoredKey(k, req[r].items[tc[i]].key)]
       IN  /\ ~ViolatesUnique(k, keys)
           /\ chunks' = [chunks EXCEPT ![r] = Append(@, tc)]
           /\ IF SwallowsOther(k)
              THEN /\ log' = [log EXCEPT ![r].failed = @ + Len(tc),
                                         ![r].errors = Append(@,
                                             ErrorEntry("bulk_create_error", "bulk_create", 0))]
                   /\ raised' = raised
              ELSE /\ log' = log
                   /\ raised' = [raised EXCEPT ![r] = "other"]
    /\ pc' = [pc EXCEPT ![r] = "enable"]
    /\ UNCHANGED <<rows, nextId, trig, audit, batchLogs, appUserId, req,
                   validated, filtered, done, toCreate, heldOff, stored0, resp, apiWrites>>
    /\ UNCHANGED authVars
    /\ UNCHANGED accessVars

\* bulk_create succeeds.  relFail: a bulk_create of the challenge relations
\* raises inside the same atomic block; the view logs it and carries on, and
\* the block, marked for rollback, discards the challenges on exit.
BulkCreate(r, relFail) ==
    /\ pc[r] = "bulk"
    /\ relFail => req[r].kind = "challenges"
    /\ LET k == req[r].kind
           tc == toCreate[r]
           keys == [i \in 1..Len(tc) |-> StoredKey(k, req[r].items[tc[i]].key)]
           newRows == [i \in 1..Len(tc) |->
                          [id |-> nextId[k] + i - 1, key |-> keys[i], via |-> "batch"]]
           ids == {newRows[i].id : i \in 1..Len(tc)}
       IN  /\ ~ViolatesUnique(k, keys)
           /\ nextId' = [nextId EXCEPT ![k] = @ + Len(tc)]
           /\ chunks' = [chunks EXCEPT ![r] = Append(@, tc)]
           /\ IF relFail
              THEN /\ rows' = rows
                   /\ audit' = audit
                   /\ log' = [log EXCEPT ![r].successful = @ + Len(tc),
                                         ![r].created_ids = @ \o CreatedIds(k, newRows),
                                         ![r].errors = Append(@,
                                             ErrorEntry("challenge_category_creation_error",
                                                        "bulk_create", 0))]
              ELSE /\ rows' = [rows EXCEPT ![k] = @ \cup {newRows[i] : i \in 1..Len(tc)}]
                   /\ audit' = audit \cup AuditTrigger(k, ids, "INSERT", appUserId[r])
                   /\ log' = [log EXCEPT ![r].successful = @ + Len(tc),
                                         ![r].created_ids = @ \o CreatedIds(k, newRows)]
           /\ accounts' =
                IF k = "users" /\ ~relFail
                THEN accounts @@ [id \in ids |->
                        NewAccount(req[r].items[tc[id - nextId[k] + 1]].role, TRUE, TRUE)]
                ELSE accounts
    /\ pc' = [pc EXCEPT ![r] = "enable"]
    /\ UNCHANGED <<trig, batchLogs, appUserId, req, validated, filtered, done,
                   toCreate, raised, heldOff, stored0, resp, apiWrites>>
    /\ UNCHANGED authVars
    /\ UNCHANGED <<requester, owned, entries, listed>>

\* ENABLE TRIGGER after the atomic block instead of in a finally clause: an
\* exception leaving the block skips it
EnableTriggerNoFinally(r) ==
    /\ pc[r] = "enable"
    /\ LET k == req[r].kind
       IN  IF raised[r] # "none"
           THEN UNCHANGED <<trig, heldOff>>
           ELSE /\ trig' = [t \in AuditedTables |->
                               IF t \in TriggersOf(k) THEN TRUE ELSE trig[t]]
                /\ heldOff' = [heldOff EXCEPT ![r] = @ \ TriggersOf(k)]
    /\ IF raised[r] # "none"
       THEN /\ log' = [log EXCEPT
                          ![r].errors = Append(@, ErrorEntry("critical", raised[r], 0)),
                          ![r].failed = log[r].total_processed - log[r].successful]
            /\ pc' = [pc EXCEPT ![r] = "save"]
       ELSE /\ log' = [log EXCEPT ![r].batches_processed = @ + 1]
            /\ pc' = [pc EXCEPT ![r] =
                         IF done[r] < Len(filtered[r]) THEN "chunk" ELSE "save"]
    /\ UNCHANGED <<rows, nextId, audit, batchLogs, appUserId, req, validated,
                   filtered, done, toCreate, raised, chunks, stored0, resp, apiWrites>>
    /\ UNCHANGED authVars
    /\ UNCHANGED accessVars

\* the handler of the outer try without the recount of failed
EnableTriggerNoRecount(r) ==
    /\ pc[r] = "enable"
    /\ LET k == req[r].kind
       IN  /\ trig' = [t \in AuditedTables |->
                          IF t \in TriggersOf(k) THEN TRUE ELSE trig[t]]
           /\ heldOff' = [heldOff EXCEPT ![r] = @ \ TriggersOf(k)]
    /\ IF raised[r] # "none"
       THEN /\ log' = [log EXCEPT
                          ![r].errors = Append(@, ErrorEntry("critical", raised[r], 0))]
            /\ pc' = [pc EXCEPT ![r] = "save"]
       ELSE /\ log' = [log EXCEPT ![r].batches_processed = @ + 1]
            /\ pc' = [pc EXCEPT ![r] =
                         IF done[r] < Len(filtered[r]) THEN "chunk" ELSE "save"]
    /\ UNCHANGED <<rows, nextId, audit, batchLogs, appUserId, req, validated,
                   filtered, done, toCreate, raised, chunks, stored0, resp, apiWrites>>
    /\ UNCHANGED authVars
    /\ UNCHANGED accessVars

\* the finally clause, then either the end of the loop body or the handler
\* of the outer try
EnableTrigger(r) ==
    /\ pc[r] = "enable"
    /\ LET k == req[r].kind
       IN  /\ trig' = [t \in AuditedTables |->
                          IF t \in TriggersOf(k) THEN TRUE ELSE trig[t]]
           /\ heldOff' = [heldOff EXCEPT ![r] = @ \ TriggersOf(k)]
    /\ IF raised[r] # "none"
       THEN /\ log' = [log EXCEPT
                          ![r].errors = Append(@, ErrorEntry("critical", raised[r], 0)),
                          ![r].failed = log[r].total_processed - log[r].successful]
            /\ pc' = [pc EXCEPT ![r] = "save"]
       ELSE /\ log' = [log EXCEPT ![r].batches_processed = @ + 1]
            /\ pc' = [pc EXCEPT ![r] =
                         IF done[r] < Len(filtered[r]) THEN "chunk" ELSE "save"]
    /\ UNCHANGED <<rows, nextId, audit, batchLogs, appUserId, req, validated,
                   filtered, done, toCreate, raised, chunks, stored0, resp, apiWrites>>
    /\ UNCHANGED authVars
    /\ UNCHANGED accessVars

\* BatchLog(...).save() and the response
SaveBatchLog(r) ==
    /\ pc[r] = "save"
    /\ batchLogs' = batchLogs \cup
           {[request |-> r, table_name |-> req[r].kind, changed_by |-> requester[r],
             total_processed |-> log[r].total_processed,
             successful |-> log[r].successful, failed |-> log[r].failed,
             errors |-> log[r].errors, created_ids |-> log[r].created_ids,
             batches_processed |-> log[r].batches_processed,
             batch_size |-> log[r].batch_size]}
    /\ resp' = [resp EXCEPT ![r] = <<log[r]>>]
    /\ pc' = [pc EXCEPT ![r] = "done"]
    /\ UNCHANGED <<rows, nextId, trig, audit, appUserId, req, log, validated,
                   filtered, done, toCreate, raised, heldOff, chunks, stored0, apiWrites>>
    /\ UNCHANGED authVars
    /\ UNCHANGED accessVars

\* a create endpoint of a viewset inserting one row on connection 3, the
\* serializer having found its key free
ApiCreate(k, key) ==
    /\ apiWrites < MaxApiWrites
    /\ \A r \in Requests : pc[r] # "off" => req[r].kind = k
    /\ HasUnique(k) => key \notin StoredKeys(k)
    /\ rows' = [rows EXCEPT ![k] = @ \cup {[id |-> nextId[k], key |-> key, via |-> "api"]}]
    /\ nextId' = [nextId EXCEPT ![k] = @ + 1]
    /\ audit' = audit \cup AuditTrigger(k, {nextId[k]}, "INSERT", appUserId[3])
    /\ apiWrites' = apiWrites + 1
    /\ accounts' = IF k = "users"
                   THEN accounts @@ (nextId[k] :> NewAccount("user", TRUE, TRUE))
                   ELSE accounts
    /\ UNCHANGED <<trig, batchLogs, appUserId>>
    /\ UNCHANGED batchVars
    /\ UNCHANGED authVars
    /\ UNCHANGED <<requester, owned, entries, listed>>

\* ------------------------------------------------- tokens and permissions
UserIds == {1, 2}

\* a role check that takes every user for an admin
RoleAlwaysAdmin(u) == "admin"

\* request.user.role
Role(u) == accounts[u].role

Accounts == {[id |-> 1, key |-> "adm", via |-> "seed"],
             [id |-> 2, key |-> "usr", via |-> "seed"]}

TokenKeys == 1..MaxLogins

\* the password of a login request, as check_password sees it
Passwords == {"right", "wrong"}

NoToken == [state |-> "none", user |-> NULL, is_active |-> FALSE, expires_at |-> 0]

\* a key whose row was deleted: the key is not issued again
DeletedToken == [state |-> "deleted", user |-> NULL, is_active |-> FALSE, expires_at |-> 0]

IsTokenRow(t) == t.state = "stored"

\* settings.MIDDLEWARE
MIDDLEWARE == {"corsheaders.middleware.CorsMiddleware",
               "django.middleware.security.SecurityMiddleware",
               "django.contrib.sessions.middleware.SessionMiddleware",
               "django.middleware.common.CommonMiddleware",
               "django.middleware.csrf.CsrfViewMiddleware",
               "django.contrib.auth.middleware.AuthenticationMiddleware",
               "django.contrib.messages.middleware.MessageMiddleware",
               "django.middleware.clickjacking.XFrameOptionsMiddleware"}

\* AuditUserMiddleware.__call__ runs only for a middleware the settings list
AuditUserMiddleware(c, setting) ==
    IF "audit.middleware.AuditUserMiddleware" \in MIDDLEWARE
    THEN [setting EXCEPT ![c] = NULL]
    ELSE setting

Endpoints == {"users_list", "users_create", "categories_create",
              "goal_progress_list", "habit_log_list", "logout", "clean_tokens"}

\* get_permissions / permission_classes of the view
PermissionsOf(ep) ==
    CASE ep = "users_list" -> <<"HasValidToken">>
      [] ep = "users_create" -> <<>>
      [] ep = "categories_create" -> <<"HasValidToken", "IsAdmin">>
      [] ep = "goal_progress_list" -> <<"IsAdmin">>
      [] ep = "habit_log_list" -> <<"IsAdmin">>
      [] ep = "logout" -> <<"HasValidToken">>
      [] ep = "clean_tokens" -> <<"HasValidToken", "IsAdmin">>
      [] ep = "users_update" -> <<"HasValidToken", "IsAdminOrSelf">>
      [] ep = "change_password" -> <<"HasValidToken", "IsAdminOrSelf">>
      [] ep = "change_role" -> <<"HasValidToken", "IsAdmin">>
      [] ep = "users_batch_import" -> <<"HasValidToken", "IsAdmin">>
      [] ep \in {"goals_list", "goals_user", "goals_category",
                 "habits_list", "habits_user", "habits_category"} -> <<"HasValidToken">>
      [] ep \in {"goals_create", "goals_update", "goals_destroy",
                 "habits_create", "habits_update", "habits_destroy",
                 "goal_progresses_create", "goal_progresses_update",
                 "goal_progresses_destroy", "habit_logs_create",
                 "habit_logs_update", "habit_logs_destroy"} ->
            <<"HasValidToken", "IsAdminOrSelf">>

\* the first permission class of the endpoint is HasValidToken
HasValidTokenFirst(ep) ==
    /\ Len(PermissionsOf(ep)) > 0
    /\ PermissionsOf(ep)[1] = "HasValidToken"

\* the description of the endpoint says that a valid token is required
DocumentedValidToken(ep) == ep \notin {"users_create", "login", "none"}

\* table the endpoint inserts into
WritesTo(ep) ==
    CASE ep = "users_create" -> "users"
      [] ep = "categories_create" -> "categories"
      [] OTHER -> "none"

\* TokenAuthentication.authenticate: no header, unknown key, or the user and
\* the token; neither is_active nor expires_at is looked at
Authenticate(hdr) ==
    IF hdr = NULL THEN [failed |-> FALSE, user |-> NULL, auth |-> NULL]
    ELSE IF ~IsTokenRow(tokens[hdr]) THEN [failed |-> TRUE, user |-> NULL, auth |-> NULL]
    ELSE [failed |-> FALSE, user |-> tokens[hdr].user, auth |-> hdr]

\* has_permission that refuses an expired token but leaves it active
HasPermissionNoDeactivate(p, a) ==
    CASE p = "HasValidToken" ->
            IF a.auth = NULL THEN [status |-> "401", expire |-> FALSE]
            ELSE IF ~tokens[a.auth].is_active THEN [status |-> "401", expire |-> FALSE]
            ELSE IF tokens[a.auth].expires_at < now THEN [status |-> "401", expire |-> FALSE]
            ELSE [status |-> "pass", expire |-> FALSE]
      [] p = "IsAdmin" ->
            IF a.user = NULL THEN [status |-> "500", expire |-> FALSE]
            ELSE IF Role(a.user) = "admin" THEN [status |-> "pass", expire |-> FALSE]
            ELSE [status |-> "403", expire |-> FALSE]
      [] p = "IsAdminOrSelf" ->
            IF a.user # NULL /\ a.auth # NULL THEN [status |-> "pass", expire |-> FALSE]
            ELSE [status |-> "401", expire |-> FALSE]

\* has_permission of one permission class: "pass" or the status of the
\* refusal, and whether HasValidToken deactivates the expired token
HasPermission(p, a) ==
    CASE p = "HasValidToken" ->
            IF a.auth = NULL THEN [status |-> "401", expire |-> FALSE]
            ELSE IF ~tokens[a.auth].is_active THEN [status |-> "401", expire |-> FALSE]
            ELSE IF tokens[a.auth].expires_at < now THEN [status |-> "401", expire |-> TRUE]
            ELSE [status |-> "pass", expire |-> FALSE]
      [] p = "IsAdmin" ->
            IF a.user = NULL THEN [status |-> "500", expire |-> FALSE]
            ELSE IF Role(a.user) = "admin" THEN [status |-> "pass", expire |-> FALSE]
            ELSE [status |-> "403", expire |-> FALSE]
      [] p = "IsAdminOrSelf" ->
            IF a.user # NULL /\ a.auth # NULL THEN [status |-> "pass", expire |-> FALSE]
            ELSE [status |-> "401", expire |-> FALSE]

\* check_permissions: the classes in order, stopping at the first refusal
RECURSIVE CheckPermissions(_, _, _)
CheckPermissions(perms, i, a) ==
    IF i > Len(perms) THEN [status |-> "pass", expire |-> FALSE]
    ELSE LET res == HasPermission(perms[i], a)
         IN  IF res.status = "pass" THEN CheckPermissions(perms, i + 1, a) ELSE res

\* UserViewSet.get_queryset for list, as rows of the listing
UsersVisible(u) ==
    {[kind |-> "users", id |-> v, user |-> v, is_public |-> accounts[v].is_public] :
        v \in {w \in DOMAIN accounts : Role(u) = "admin" \/ accounts[w].is_public}}

\* one request to a token-authenticated endpoint on connection c, presenting
\* the Authorization header hdr (NULL: no header)
Call(c, hdr, ep) ==
    LET a == Authenticate(hdr)
        setting == IF a.auth # NULL THEN [appUserId EXCEPT ![c] = a.user] ELSE appUserId
        res == IF a.failed THEN [status |-> "401", expire |-> FALSE]
               ELSE CheckPermissions(PermissionsOf(ep), 1, a)
        ok == res.status = "pass"
        t == WritesTo(ep)
        written == IF ok /\ t # "none"
                   THEN AuditTrigger(t, {nextId[t]}, "INSERT", setting[c])
                   ELSE {}
    IN  /\ (ok /\ t # "none") => apiWrites < MaxApiWrites
        /\ IF ok /\ t # "none"
           THEN /\ rows' = [rows EXCEPT ![t] = @ \cup
                               {[id |-> nextId[t], key |-> "new", via |-> "api"]}]
                /\ nextId' = [nextId EXCEPT ![t] = @ + 1]
                /\ apiWrites' = apiWrites + 1
           ELSE UNCHANGED <<rows, nextId, apiWrites>>
        /\ accounts' = IF ok /\ t = "users"
                       THEN accounts @@ (nextId[t] :> NewAccount("user", TRUE, TRUE))
                       ELSE accounts
        /\ audit' = audit \cup written
        /\ tokens' =
             IF res.expire THEN [tokens EXCEPT ![a.auth].is_active = FALSE]
             ELSE IF ok /\ ep = "logout" THEN [tokens EXCEPT ![a.auth].is_active = FALSE]
             ELSE IF ok /\ ep = "clean_tokens"
                  THEN [k \in TokenKeys |->
                           IF IsTokenRow(tokens[k]) /\ ~tokens[k].is_active
                           THEN DeletedToken ELSE tokens[k]]
             ELSE tokens
        /\ loggedOut' = IF ok /\ ep = "logout" THEN loggedOut \cup {a.auth} ELSE loggedOut
        /\ appUserId' = AuditUserMiddleware(c, setting)
        /\ last' = [ep |-> ep, header |-> hdr,
                    status |-> IF ok THEN "200" ELSE res.status,
                    audited |-> written, user |-> NULL, password |-> "none"]
        /\ listed' = IF ok /\ ep = "users_list"
                     THEN [user |-> a.user, admin |-> Role(a.user) = "admin",
                           items |-> UsersVisible(a.user)]
                     ELSE NoListing
        /\ UNCHANGED <<trig, batchLogs, now>>
        /\ UNCHANGED batchVars
        /\ UNCHANGED <<requester, owned, entries>>

\* validate that does not look at is_active
CredentialsOkInactive(u, pw) ==
    /\ u \in DOMAIN accounts
    /\ pw = "right"

\* LoginSerializer.validate: the user exists, the password matches and the
\* user is active; u = NULL is a username that is not stored
CredentialsOk(u, pw) ==
    /\ u \in DOMAIN accounts
    /\ pw = "right"
    /\ accounts[u].is_active

\* LoginView.post with the username of user u and a right or wrong
\* password: no authentication class runs; with valid credentials the token
\* is created and user.save() updates the users row, otherwise 401
Login(c, u, pw) ==
    /\ IF CredentialsOk(u, pw)
       THEN /\ \E k \in TokenKeys : tokens[k] = NoToken
            /\ LET k == CHOOSE k \in TokenKeys :
                          tokens[k] = NoToken /\ \A j \in TokenKeys : tokens[j] = NoToken => k <= j
                   written == AuditTrigger("users", {u}, "UPDATE", appUserId[c])
               IN  /\ tokens' = [tokens EXCEPT ![k] =
                                    [state |-> "stored", user |-> u, is_active |-> TRUE,
                                     expires_at |-> now + ExpiresHours]]
                   /\ audit' = audit \cup written
                   /\ last' = [ep |-> "login", header |-> NULL, status |-> "200",
                               audited |-> written, user |-> u, password |-> pw]
       ELSE /\ last' = [ep |-> "login", header |-> NULL, status |-> "401",
                        audited |-> {}, user |-> u, password |-> pw]
            /\ UNCHANGED <<tokens, audit>>
    /\ appUserId' = AuditUserMiddleware(c, appUserId)
    /\ UNCHANGED <<rows, nextId, trig, batchLogs, apiWrites, now, loggedOut>>
    /\ UNCHANGED batchVars
    /\ UNCHANGED accessVars

\* authentication and check_permissions of a request with header hdr
Gate(hdr, ep) ==
    LET a == Authenticate(hdr)
        res == IF a.failed THEN [status |-> "401", expire |-> FALSE]
               ELSE CheckPermissions(PermissionsOf(ep), 1, a)
    IN  [user |-> a.user, auth |-> a.auth, status |-> res.status, expire |-> res.expire]

\* HasValidToken.save() of an expired token
TokensAfter(g) ==
    IF g.expire THEN [tokens EXCEPT ![g.auth].is_active = FALSE] ELSE tokens

\* set_config in authenticate, then the middleware
SessionAfter(c, g) ==
    AuditUserMiddleware(c, IF g.auth # NULL THEN [appUserId EXCEPT ![c] = g.user]
                           ELSE appUserId)

\* check_object_permissions of get_object() on the users row target
UserObjectPermission(perms, g, target) ==
    /\ ("HasValidToken" \in perms) =>
          (accounts[target].is_public \/ Role(g.user) = "admin")
    /\ ("IsAdminOrSelf" \in perms) =>
          (target = g.user \/ Role(g.user) = "admin")

\* status of a request to a detail route of UserViewSet
UserDetailStatus(ep, g, target) ==
    IF g.status # "pass" THEN g.status
    ELSE IF target \notin DOMAIN accounts THEN "404"
    ELSE IF ~UserObjectPermission({PermissionsOf(ep)[i] : i \in 1..Len(PermissionsOf(ep))},
                                  g, target) THEN "403"
    ELSE "200"

\* UserViewSet.update / partial_update with is_active and is_public
UserUpdate(c, hdr, target, active, public) ==
    LET g == Gate(hdr, "users_update")
        st == UserDetailStatus("users_update", g, target)
        written == IF st = "200"
                   THEN AuditTrigger("users", {target}, "UPDATE", SessionAfter(c, g)[c])
                   ELSE {}
    IN  /\ st = "200" => apiWrites < MaxUserWrites
        /\ accounts' = IF st = "200"
                       THEN [accounts EXCEPT ![target].is_active = active,
                                             ![target].is_public = public]
                       ELSE accounts
        /\ apiWrites' = IF st = "200" THEN apiWrites + 1 ELSE apiWrites
        /\ audit' = audit \cup written
        /\ tokens' = TokensAfter(g)
        /\ appUserId' = SessionAfter(c, g)
        /\ last' = [ep |-> "users_update", header |-> hdr, status |-> st,
                    audited |-> written, user |-> target, password |-> "none"]
        /\ UNCHANGED <<rows, nextId, trig, batchLogs, now, loggedOut>>
        /\ UNCHANGED batchVars
        /\ UNCHANGED <<requester, owned, entries, listed>>

\* UserViewSet.change_password: the password hash is not modelled
ChangePassword(c, hdr, target) ==
    LET g == Gate(hdr, "change_password")
        st == UserDetailStatus("change_password", g, target)
        written == IF st = "200"
                   THEN AuditTrigger("users", {target}, "UPDATE", SessionAfter(c, g)[c])
                   ELSE {}
    IN  /\ st = "200" => apiWrites < MaxUserWrites
        /\ apiWrites' = IF st = "200" THEN apiWrites + 1 ELSE apiWrites
        /\ audit' = audit \cup written
        /\ tokens' = TokensAfter(g)
        /\ appUserId' = SessionAfter(c, g)
        /\ last' = [ep |-> "change_password", header |-> hdr, status |-> st,
                    audited |-> written, user |-> target, password |-> "none"]
        /\ UNCHANGED <<rows, nextId, trig, batchLogs, now, loggedOut>>
        /\ UNCHANGED batchVars
        /\ UNCHANGED accessVars

\* UserViewSet.change_role with the query parameter role ("none": absent)
ChangeRole(c, hdr, target, role) ==
    LET g == Gate(hdr, "change_role")
        st == IF g.status # "pass" THEN g.status
              ELSE IF role = "none" \/ role \notin {"admin", "user"} THEN "400"
              ELSE UserDetailStatus("change_role", g, target)
        written == IF st = "200"
                   THEN AuditTrigger("users", {target}, "UPDATE", SessionAfter(c, g)[c])
                   ELSE {}
    IN  /\ st = "200" => apiWrites < MaxUserWrites
        /\ accounts' = IF st = "200" THEN [accounts EXCEPT ![target].role = role]
                       ELSE accounts
        /\ apiWrites' = IF st = "200" THEN apiWrites + 1 ELSE apiWrites
        /\ audit' = audit \cup written
        /\ tokens' = TokensAfter(g)
        /\ appUserId' = SessionAfter(c, g)
        /\ last' = [ep |-> "change_role", header |-> hdr, status |-> st,
                    audited |-> written, user |-> target, password |-> "none"]
        /\ UNCHANGED <<rows, nextId, trig, batchLogs, now, loggedOut>>
        /\ UNCHANGED batchVars
        /\ UNCHANGED <<requester, owned, entries, listed>>

\* authentication and permission_classes of BatchUserCreateView for the
\* batch request r arriving on connection r with header hdr
Admit(r, hdr) ==
    /\ pc[r] = "arrive"
    /\ LET g == Gate(hdr, "users_batch_import")
       IN  /\ tokens' = TokensAfter(g)
           /\ appUserId' = SessionAfter(r, g)
           /\ IF g.status = "pass"
              THEN /\ requester' = [requester EXCEPT ![r] = g.user]
                   /\ pc' = [pc EXCEPT ![r] = "start"]
              ELSE /\ requester' = requester
                   /\ pc' = [pc EXCEPT ![r] = "refused"]
           /\ last' = [ep |-> "users_batch_import", header |-> hdr,
                       status |-> IF g.status = "pass" THEN "200" ELSE g.status,
                       audited |-> {}, user |-> NULL, password |-> "none"]
    /\ UNCHANGED <<rows, nextId, trig, audit, batchLogs, apiWrites, now, loggedOut>>
    /\ UNCHANGED <<req, log, validated, filtered, done, toCreate, raised,
                   heldOff, chunks, stored0, resp>>
    /\ UNCHANGED <<accounts, owned, entries, listed>>

\* ------------------------------------------- goals, habits and their records
ObjectKinds == {"goals", "habits"}

\* the table of the records of a goal or a habit
EntryKind(o) == IF o = "goals" THEN "goal_progresses" ELSE "habit_logs"

\* name of the route act of the viewset of table t
Route(t, act) ==
    CASE t = "goals" ->
           (CASE act = "create" -> "goals_create" [] act = "update" -> "goals_update"
              [] act = "destroy" -> "goals_destroy" [] act = "list" -> "goals_list"
              [] act = "user" -> "goals_user" [] act = "category" -> "goals_category")
      [] t = "habits" ->
           (CASE act = "create" -> "habits_create" [] act = "update" -> "habits_update"
              [] act = "destroy" -> "habits_destroy" [] act = "list" -> "habits_list"
              [] act = "user" -> "habits_user" [] act = "category" -> "habits_category")
      [] t = "goal_progresses" ->
           (CASE act = "create" -> "goal_progresses_create"
              [] act = "update" -> "goal_progresses_update"
              [] act = "destroy" -> "goal_progresses_destroy")
      [] t = "habit_logs" ->
           (CASE act = "create" -> "habit_logs_create"
              [] act = "update" -> "habit_logs_update"
              [] act = "destroy" -> "habit_logs_destroy")

ObjectsOf(o) == {x \in owned : x.kind = o}

\* owner of the goal or habit an entry belongs to, looked up in the rows xs
ParentOwner(xs, e, parent) ==
    LET ps == {x \in xs : EntryKind(x.kind) = e /\ x.id = parent}
    IN  IF ps = {} THEN NULL ELSE (CHOOSE x \in ps : TRUE).user

\* object permissions that let every holder of a valid token change a
\* public goal or habit
ObjectPermissionPublic(g, x) ==
    x.is_public \/ Role(g.user) = "admin"

\* has_object_permission of HasValidToken and IsAdminOrSelf on a goal or habit
ObjectPermission(g, x) ==
    /\ x.is_public \/ Role(g.user) = "admin"
    /\ x.user = g.user \/ Role(g.user) = "admin"

\* has_object_permission of IsAdminOrSelf on a progress record or log:
\* the owner of its goal or habit, and nobody else
EntryPermission(g, x) == ParentOwner(owned, x.kind, x.parent) = g.user

RequestRecord(ep, hdr, st, written, arg) ==
    [ep |-> ep, header |-> hdr, status |-> st, audited |-> written,
     user |-> arg, password |-> "none"]

\* what a request that is not a listing leaves unchanged, and its session
ObjectRequestFrame(c, g) ==
    /\ tokens' = TokensAfter(g)
    /\ appUserId' = SessionAfter(c, g)
    /\ listed' = NoListing
    /\ UNCHANGED <<trig, batchLogs, now, loggedOut, accounts, requester>>
    /\ UNCHANGED batchVars

\* GoalViewSet.create / HabitViewSet.create for the user with id user
ObjectCreate(c, hdr, o, user, public) ==
    LET ep == Route(o, "create")
        g == Gate(hdr, ep)
        st == IF g.status # "pass" THEN g.status
              ELSE IF user # g.user /\ Role(g.user) # "admin" THEN "403"
              ELSE IF user \notin DOMAIN accounts THEN "400"
              ELSE "201"
        written == IF st = "201"
                   THEN AuditTrigger(o, {nextId[o]}, "INSERT", SessionAfter(c, g)[c])
                   ELSE {}
    IN  /\ st = "201" => apiWrites < MaxObjectWrites /\ nextId[o] <= MaxObjects
        /\ IF st = "201"
           THEN /\ owned' = owned \cup {[kind |-> o, id |-> nextId[o], user |-> user,
                                         is_public |-> public]}
                /\ rows' = [rows EXCEPT ![o] = @ \cup
                               {[id |-> nextId[o], key |-> "new", via |-> "api"]}]
                /\ nextId' = [nextId EXCEPT ![o] = @ + 1]
                /\ apiWrites' = apiWrites + 1
           ELSE UNCHANGED <<owned, rows, nextId, apiWrites>>
        /\ audit' = audit \cup written
        /\ last' = RequestRecord(ep, hdr, st, written, user)
        /\ entries' = entries
        /\ ObjectRequestFrame(c, g)

\* status of a request to a detail route of a goal or habit
ObjectDetailStatus(g, o, id) ==
    IF g.status # "pass" THEN g.status
    ELSE IF \A x \in ObjectsOf(o) : x.id # id THEN "404"
    ELSE IF ~ObjectPermission(g, CHOOSE x \in ObjectsOf(o) : x.id = id) THEN "403"
    ELSE "200"

\* update / partial_update of a goal or habit: the serializer has no user field
ObjectUpdate(c, hdr, o, id, public) ==
    LET ep == Route(o, "update")
        g == Gate(hdr, ep)
        st == ObjectDetailStatus(g, o, id)
        written == IF st = "200"
                   THEN AuditTrigger(o, {id}, "UPDATE", SessionAfter(c, g)[c])
                   ELSE {}
    IN  /\ st = "200" => apiWrites < MaxObjectWrites
        /\ IF st = "200"
           THEN /\ owned' = {IF x.kind = o /\ x.id = id
                             THEN [x EXCEPT !.is_public = public] ELSE x : x \in owned}
                /\ apiWrites' = apiWrites + 1
           ELSE UNCHANGED <<owned, apiWrites>>
        /\ audit' = audit \cup written
        /\ last' = RequestRecord(ep, hdr, st, written, id)
        /\ UNCHANGED <<rows, nextId, entries>>
        /\ ObjectRequestFrame(c, g)

\* destroy of a goal or habit; its records go with it (on_delete CASCADE)
ObjectDestroy(c, hdr, o, id) ==
    LET ep == Route(o, "destroy")
        g == Gate(hdr, ep)
        st == ObjectDetailStatus(g, o, id)
        gone == {e \in entries : e.kind = EntryKind(o) /\ e.parent = id}
        written == IF st = "200"
                   THEN AuditTrigger(o, {id}, "DELETE", SessionAfter(c, g)[c]) \cup
                        AuditTrigger(EntryKind(o), {e.id : e \in gone}, "DELETE",
                                     SessionAfter(c, g)[c])
                   ELSE {}
    IN  /\ st = "200" => apiWrites < MaxObjectWrites
        /\ IF st = "200"
           THEN /\ owned' = {x \in owned : ~(x.kind = o /\ x.id = id)}
                /\ entries' = entries \ gone
                /\ rows' = [rows EXCEPT
                              ![o] = {x \in @ : x.id # id},
                              ![EntryKind(o)] = {x \in @ : x.id \notin {e.id : e \in gone}}]
                /\ apiWrites' = apiWrites + 1
           ELSE UNCHANGED <<owned, entries, rows, apiWrites>>
        /\ audit' = audit \cup written
        /\ last' = RequestRecord(ep, hdr, IF st = "200" THEN "204" ELSE st, written, id)
        /\ nextId' = nextId
        /\ ObjectRequestFrame(c, g)

\* GoalProgressViewSet.create / HabitLogViewSet.create for the goal or
\* habit with id parent; a missing parent is an AttributeError
EntryCreate(c, hdr, e, parent) ==
    LET ep == Route(e, "create")
        g == Gate(hdr, ep)
        owner == ParentOwner(owned, e, parent)
        st == IF g.status # "pass" THEN g.status
              ELSE IF owner = NULL THEN "500"
              ELSE IF owner # g.user /\ Role(g.user) # "admin" THEN "403"
              ELSE "201"
        written == IF st = "201"
                   THEN AuditTrigger(e, {nextId[e]}, "INSERT", SessionAfter(c, g)[c])
                   ELSE {}
    IN  /\ st = "201" => apiWrites < MaxObjectWrites /\ nextId[e] <= MaxObjects
        /\ IF st = "201"
           THEN /\ entries' = entries \cup {[kind |-> e, id |-> nextId[e],
                                             parent |-> parent, value |-> 0]}
                /\ rows' = [rows EXCEPT ![e] = @ \cup
                               {[id |-> nextId[e], key |-> "new", via |-> "api"]}]
                /\ nextId' = [nextId EXCEPT ![e] = @ + 1]
                /\ apiWrites' = apiWrites + 1
           ELSE UNCHANGED <<entries, rows, nextId, apiWrites>>
        /\ audit' = audit \cup written
        /\ last' = RequestRecord(ep, hdr, st, written, parent)
        /\ owned' = owned
        /\ ObjectRequestFrame(c, g)

\* status of a request to a detail route of a progress record or log
EntryDetailStatus(g, e, id) ==
    IF g.status # "pass" THEN g.status
    ELSE IF \A x \in entries : ~(x.kind = e /\ x.id = id) THEN "404"
    ELSE IF ~EntryPermission(g, CHOOSE x \in entries : x.kind = e /\ x.id = id) THEN "403"
    ELSE "200"

\* update / partial_update (value) and destroy of a progress record or log
EntryChange(c, hdr, e, id, act) ==
    LET ep == Route(e, act)
        g == Gate(hdr, ep)
        st == EntryDetailStatus(g, e, id)
        written == IF st = "200"
                   THEN AuditTrigger(e, {id}, IF act = "update" THEN "UPDATE" ELSE "DELETE",
                                     SessionAfter(c, g)[c])
                   ELSE {}
    IN  /\ st = "200" => apiWrites < MaxObjectWrites
        /\ IF st = "200"
           THEN /\ entries' = IF act = "update"
                              THEN {IF x.kind = e /\ x.id = id
                                    THEN [x EXCEPT !.value = 1] ELSE x : x \in entries}
                              ELSE {x \in entries : ~(x.kind = e /\ x.id = id)}
                /\ rows' = IF act = "update" THEN rows
                           ELSE [rows EXCEPT ![e] = {x \in @ : x.id # id}]
                /\ apiWrites' = apiWrites + 1
           ELSE UNCHANGED <<entries, rows, apiWrites>>
        /\ audit' = audit \cup written
        /\ last' = RequestRecord(ep, hdr,
                                 IF st = "200" /\ act = "destroy" THEN "204" ELSE st,
                                 written, id)
        /\ UNCHANGED <<owned, nextId>>
        /\ ObjectRequestFrame(c, g)

\* a listing that filters nothing
ObjectsVisibleAll(g, o, act, arg) ==
    IF act = "user" THEN {x \in ObjectsOf(o) : x.user = arg} ELSE ObjectsOf(o)

\* the rows a listing of goals or habits returns to the user g.user:
\* get_queryset for list, user_goals / user_habits for the user arg,
\* category_goals / category_habits (every object is in the one category)
ObjectsVisible(g, o, act, arg) ==
    CASE act = "list" ->
           IF Role(g.user) # "admin" THEN {x \in ObjectsOf(o) : x.is_public}
           ELSE ObjectsOf(o)
      [] act = "user" ->
           IF g.user = arg \/ Role(g.user) = "admin"
           THEN {x \in ObjectsOf(o) : x.user = arg}
           ELSE {x \in ObjectsOf(o) : x.user = arg /\ x.is_public}
      [] act = "category" ->
           IF Role(g.user) = "admin" THEN ObjectsOf(o)
           ELSE {x \in ObjectsOf(o) : x.is_public}

\* list, user_goals / user_habits and category_goals / category_habits
ObjectList(c, hdr, o, act, arg) ==
    LET ep == Route(o, act)
        g == Gate(hdr, ep)
        st == IF g.status # "pass" THEN g.status
              ELSE IF act = "user" /\ arg \notin DOMAIN accounts THEN "404"
              ELSE "200"
    IN  /\ listed' = IF st = "200"
                     THEN [user |-> g.user, admin |-> Role(g.user) = "admin",
                           items |-> ObjectsVisible(g, o, act, arg)]
                     ELSE NoListing
        /\ last' = RequestRecord(ep, hdr, st, {}, arg)
        /\ tokens' = TokensAfter(g)
        /\ appUserId' = SessionAfter(c, g)
        /\ UNCHANGED <<rows, nextId, trig, audit, batchLogs, apiWrites, now, loggedOut,
                       accounts, requester, owned, entries>>
        /\ UNCHANGED batchVars

\* time passes
Tick ==
    /\ now + TickHours <= MaxTime
    /\ now' = now + TickHours
    /\ UNCHANGED <<rows, nextId, trig, audit, batchLogs, appUserId, apiWrites,
                   tokens, last, loggedOut>>
    /\ UNCHANGED batchVars
    /\ UNCHANGED accessVars

\* --------------------------------------------------------------- Init
NoLog == NewOperationLog(<<>>, 0)

InitDb ==
    /\ rows = [t \in Kinds |-> IF t = "users" THEN Accounts ELSE {}]
    /\ nextId = [t \in Kinds |-> IF t = "users" THEN Cardinality(Accounts) + 1 ELSE 1]
    /\ trig = [t \in AuditedTables |-> TRUE]
    /\ audit = {}
    /\ batchLogs = {}
    /\ appUserId = [c \in Conns |-> NULL]
    /\ apiWrites = 0
    /\ accounts = (1 :> NewAccount("admin", TRUE, TRUE)) @@
                  (2 :> NewAccount("user", TRUE, TRUE))
    /\ owned = {}
    /\ entries = {}
    /\ listed = NoListing

InitAuthIdle ==
    /\ tokens = [t \in 1..MaxLogins |-> NoToken]
    /\ now = 0
    /\ last = [ep |-> "none", header |-> NULL, status |-> "none", audited |-> {},
               user |-> NULL, password |-> "none"]
    /\ loggedOut = {}

InitRequests(active, entry, maxItems, kinds, keys, roles) ==
    /\ \E k \in kinds :
         req \in [Requests ->
                    [kind : {k},
                     items : SeqsUpTo({it \in ItemsOf(k) :
                                          it.key \in keys /\ it.role \in roles}, maxItems),
                     batch_size : 1..MaxBatchSize]]
    /\ requester = [r \in Requests |-> IF entry = "start" THEN 1 ELSE NULL]
    /\ \A r \in Requests \ active : req[r] = req[1]
    /\ pc = [r \in Requests |-> IF r \in active THEN entry ELSE "off"]
    /\ log = [r \in Requests |-> NewOperationLog(req[r].items, req[r].batch_size)]
    /\ validated = [r \in Requests |-> <<>>]
    /\ filtered = [r \in Requests |-> <<>>]
    /\ done = [r \in Requests |-> 0]
    /\ toCreate = [r \in Requests |-> <<>>]
    /\ raised = [r \in Requests |-> "none"]
    /\ heldOff = [r \in Requests |-> {}]
    /\ chunks = [r \in Requests |-> <<>>]
    /\ stored0 = [r \in Requests |-> {}]
    /\ resp = [r \in Requests |-> <<>>]

\* one batch-import request, non-batch inserts before, during and after it
Init == InitDb /\ InitAuthIdle /\ InitRequests({1}, "start", MaxItems, Kinds, RawKeys, {"user"})

\* two batch-import requests on the same table
ConcKinds == {"users", "goals"}
ConcKeys == {"a"}

InitConc == InitDb /\ InitAuthIdle /\ InitRequests(Requests, "start", MaxItemsConc, ConcKinds, ConcKeys, {"user"})

Next ==
    \/ \E r \in Requests : Validate(r)
    \/ \E r \in Requests : CheckExisting(r)
    \/ \E r \in Requests : DisableTrigger(r)
    \/ \E r \in Requests : BulkIntegrityError(r)
    \/ \E r \in Requests : BulkOtherError(r)
    \/ \E r \in Requests : \E relFail \in BOOLEAN : BulkCreate(r, relFail)
    \/ \E r \in Requests : EnableTrigger(r)
    \/ \E r \in Requests : SaveBatchLog(r)
    \/ \E k \in Kinds : \E key \in {Strip(x) : x \in KeysOf(k)} : ApiCreate(k, key)

Spec == Init /\ [][Next]_vars

\* requests to the token endpoints, no batch import running
InitNoRequests ==
    /\ req = [r \in Requests |-> [kind |-> "users", items |-> <<>>, batch_size |-> 1]]
    /\ requester = [r \in Requests |-> NULL]
    /\ pc = [r \in Requests |-> "off"]
    /\ log = [r \in Requests |-> NoLog]
    /\ validated = [r \in Requests |-> <<>>]
    /\ filtered = [r \in Requests |-> <<>>]
    /\ done = [r \in Requests |-> 0]
    /\ toCreate = [r \in Requests |-> <<>>]
    /\ raised = [r \in Requests |-> "none"]
    /\ heldOff = [r \in Requests |-> {}]
    /\ chunks = [r \in Requests |-> <<>>]
    /\ stored0 = [r \in Requests |-> {}]
    /\ resp = [r \in Requests |-> <<>>]

AuthConns == {1}

InitAuth == InitDb /\ InitAuthIdle /\ InitNoRequests

NextAuth ==
    \/ \E c \in AuthConns : \E hdr \in TokenKeys \cup {NULL} : \E ep \in Endpoints :
          Call(c, hdr, ep)
    \/ \E c \in AuthConns : \E u \in UserIds \cup {NULL} : \E pw \in Passwords :
          Login(c, u, pw)
    \/ Tick

SpecAuth == InitAuth /\ [][NextAuth]_vars

\* token expiry: the endpoints guarded by HasValidToken that insert no row,
\* logins and the clock
GuardedEndpoints == {ep \in Endpoints : HasValidTokenFirst(ep) /\ WritesTo(ep) = "none"}

NextExpiry ==
    \/ \E c \in AuthConns : \E hdr \in TokenKeys \cup {NULL} : \E ep \in GuardedEndpoints :
          Call(c, hdr, ep)
    \/ \E c \in AuthConns : \E u \in UserIds : Login(c, u, "right")
    \/ Tick

SpecExpiry == InitAuth /\ [][NextExpiry]_vars

SpecConc == InitConc /\ [][Next]_vars

\* no stored token belongs to user u
HoldsNoToken(u) == \A k \in TokenKeys : ~(IsTokenRow(tokens[k]) /\ tokens[k].user = u)

\* goals, habits and their records written by an admin and by a user, each
\* logging in once
NextOwners ==
    \/ \E u \in UserIds : HoldsNoToken(u) /\ Login(1, u, "right")
    \/ \E hdr \in TokenKeys : \E o \in ObjectKinds : \E user \in UserIds :
          \E public \in BOOLEAN : ObjectCreate(1, hdr, o, user, public)
    \/ \E hdr \in TokenKeys : \E o \in ObjectKinds : \E id \in 1..MaxObjects :
          \E public \in BOOLEAN : ObjectUpdate(1, hdr, o, id, public)
    \/ \E hdr \in TokenKeys : \E o \in ObjectKinds : \E id \in 1..MaxObjects :
          ObjectDestroy(1, hdr, o, id)
    \/ \E hdr \in TokenKeys : \E o \in ObjectKinds : \E id \in 1..MaxObjects :
          EntryCreate(1, hdr, EntryKind(o), id)
    \/ \E hdr \in TokenKeys : \E o \in ObjectKinds : \E id \in 1..MaxObjects :
          \E act \in {"update", "destroy"} : EntryChange(1, hdr, EntryKind(o), id, act)

SpecOwners == InitAuth /\ [][NextOwners]_vars

\* the listings of users, goals and habits asked by an admin and by a user,
\* next to the requests that make users, goals and habits private
NextListings ==
    \/ \E u \in UserIds : HoldsNoToken(u) /\ Login(1, u, "right")
    \/ \E hdr \in TokenKeys : \E target \in UserIds : \E public \in BOOLEAN :
          UserUpdate(1, hdr, target, TRUE, public)
    \/ \E hdr \in TokenKeys : \E o \in ObjectKinds : \E user \in UserIds :
          \E public \in BOOLEAN : ObjectCreate(1, hdr, o, user, public)
    \/ \E hdr \in TokenKeys : Call(1, hdr, "users_list")
    \/ \E hdr \in TokenKeys : \E o \in ObjectKinds : \E arg \in UserIds \cup {NULL} :
          \E act \in {"list", "user", "category"} :
             /\ (act = "user") = (arg # NULL)
             /\ ObjectList(1, hdr, o, act, arg)

SpecListings == InitAuth /\ [][NextListings]_vars

\* logins next to profile updates that activate and deactivate users
NextLogin ==
    \/ \E u \in UserIds \cup {NULL} : \E pw \in Passwords : Login(1, u, pw)
    \/ \E hdr \in TokenKeys \cup {NULL} : \E target \in UserIds :
          \E active \in BOOLEAN : UserUpdate(1, hdr, target, active, TRUE)

SpecLogin == InitAuth /\ [][NextLogin]_vars

\* one users import that has yet to be admitted
InitUsers ==
    /\ InitDb /\ InitAuthIdle
    /\ InitRequests({1}, "arrive", MaxItemsUsers, {"users"}, {"a"}, RoleInputs)

\* requests made without a token or with the token of a user who is not an
\* admin: every login with valid credentials is a login of such a user
NextNonAdmin ==
    \/ \E u \in UserIds \cup {NULL} : \E pw \in Passwords :
          /\ ~(CredentialsOk(u, pw) /\ accounts[u].role = "admin")
          /\ Login(1, u, pw)
    \/ \E hdr \in TokenKeys \cup {NULL} : Call(1, hdr, "users_create")
    \/ \E hdr \in TokenKeys \cup {NULL} : \E target \in DOMAIN accounts :
          \E active, public \in BOOLEAN : UserUpdate(1, hdr, target, active, public)
    \/ \E hdr \in TokenKeys \cup {NULL} : \E target \in DOMAIN accounts :
          ChangePassword(1, hdr, target)
    \/ \E hdr \in TokenKeys \cup {NULL} : \E target \in DOMAIN accounts :
          \E role \in RoleInputs \cup {"none"} : ChangeRole(1, hdr, target, role)
    \/ \E hdr \in TokenKeys \cup {NULL} : Admit(1, hdr)

\* the import waiting to be admitted asks for users with the role admin
InitNonAdmin ==
    /\ InitDb /\ InitAuthIdle
    /\ InitRequests({1}, "arrive", MaxItemsUsers, {"users"}, {"a"}, {"admin"})

SpecNonAdmin == InitNonAdmin /\ [][NextNonAdmin]_vars

\* the routes that write users rows, used by an admin and by anonymous
\* visitors: registration, profile update, change_role and the users import
NextRoles ==
    \/ Login(1, 1, "right")
    \/ ApiCreate("users", "a")
    \/ \E hdr \in TokenKeys : \E target \in UserIds :
          \E public \in BOOLEAN : UserUpdate(1, hdr, target, TRUE, public)
    \/ \E hdr \in TokenKeys : \E target \in UserIds :
          \E role \in RoleInputs : ChangeRole(1, hdr, target, role)
    \/ \E hdr \in TokenKeys : Admit(1, hdr)
    \/ Validate(1)
    \/ CheckExisting(1)
    \/ DisableTrigger(1)
    \/ BulkIntegrityError(1)
    \/ BulkCreate(1, FALSE)
    \/ EnableTrigger(1)
    \/ SaveBatchLog(1)

SpecRoles == InitUsers /\ [][NextRoles]_vars

\* ================================================================ claims
Returned(r) == resp[r] # <<>>

\* the errors of a log that are about a chunk, not about one item
ChunkErrors(l) == {n \in 1..Len(l.errors) : l.errors[n].index = 0}

ItemErrors(l, j) == {n \in 1..Len(l.errors) : l.errors[n].index = j}

InSomeChunk(r, j) ==
    \E c \in 1..Len(chunks[r]) : \E i \in 1..Len(chunks[r][c]) : chunks[r][c][i] = j

BatchRows(k) == {row \in rows[k] : row.via = "batch"}

Ceil(n, d) == (n + d - 1) \div d

KeyedKinds == {"users", "categories", "goals", "habits", "subscriptions"}

\* item j of request r repeats the key of an earlier item of the request
\* (an item rejected before its key is read has none)
LaterOccurrence(r, j) ==
    \E i \in 1..(j - 1) :
        /\ req[r].items[i].v # "bad_before"
        /\ NormKey(req[r].kind, req[r].items[i].key) = NormKey(req[r].kind, req[r].items[j].key)

\* C1: a batch-import request that has left its chunk loop (on the way to
\* BatchLog.save() or already returned) has enabled every audit trigger it
\* disabled, whichever way bulk_create ended, and the triggers of its tables
\* are enabled.
C1_TriggersEnabledAfterRequest ==
    \A r \in Requests :
        pc[r] \in {"save", "done"} =>
            /\ heldOff[r] = {}
            /\ \A t \in TriggersOf(req[r].kind) : trig[t]

\* C1 witness: a request returned after bulk_create raised IntegrityError
C1_Witness ==
    /\ pc[1] = "done"
    /\ raised[1] = "integrity"
    /\ chunks[1] # <<>>
    /\ \A t \in TriggersOf(req[1].kind) : trig[t]

\* C2: whenever a request is about to execute bulk_create for a chunk the
\* audit triggers of its tables are disabled.
C2_BulkRunsWithTriggerDisabled ==
    \A r \in Requests :
        pc[r] = "bulk" => \A t \in TriggersOf(req[r].kind) : ~trig[t]

\* C3: every row inserted by a non-batch endpoint into an audited table has
\* an audit-log record.
C3_ApiWritesAudited ==
    \A k \in Kinds : \A row \in rows[k] :
        row.via = "api" =>
            \E a \in audit : a.table_name = k /\ a.record_id = row.id
                             /\ a.operation = "INSERT"

\* C4: once a request has completed app.user_id of its connection is reset,
\* and the audit records written by a request that carried no Authorization
\* header are attributed to nobody.
C4_SessionUserReset ==
    /\ last.ep # "none" => \A c \in AuthConns : appUserId[c] = NULL
    /\ last.header = NULL => \A a \in last.audited : a.changed_by = NULL

\* C5: in every response and every stored BatchLog row
\* successful + failed = total_processed.
C5_CountsAddUp ==
    /\ \A r \in Requests :
          Returned(r) =>
              resp[r][1].successful + resp[r][1].failed = resp[r][1].total_processed
    /\ \A b \in batchLogs : b.successful + b.failed = b.total_processed

\* C5 witness: a stored BatchLog of a request whose chunk raised
\* IntegrityError while accepted items were still waiting for their chunk
C5_Witness ==
    /\ pc[1] = "done"
    /\ raised[1] = "integrity"
    /\ done[1] < Len(filtered[1])
    /\ resp[1][1].successful > 0
    /\ \E b \in batchLogs : b.request = 1 /\ b.failed > 0

\* C6: in the chunked imports the chunks handed to bulk_create are the
\* consecutive slices of batch_size accepted items in request order, all of
\* them full except possibly the last, and a request that returned without
\* a chunk raising reports batches_processed = ceil(accepted / batch_size)
\* and successful = accepted.
C6_ChunksOfBatchSize ==
    \A r \in Requests :
        req[r].kind # "challenges" =>
            LET bs == req[r].batch_size
                f == filtered[r]
            IN  /\ \A i \in 1..Len(chunks[r]) :
                      /\ chunks[r][i] = SubSeq(f, (i - 1) * bs + 1, Min(i * bs, Len(f)))
                      /\ Len(chunks[r][i]) >= 1
                      /\ i < Ceil(Len(f), bs) => Len(chunks[r][i]) = bs
                /\ (Returned(r) /\ ChunkErrors(resp[r][1]) = {}) =>
                      /\ Len(chunks[r]) = Ceil(Len(f), bs)
                      /\ resp[r][1].batches_processed = Ceil(Len(f), bs)
                      /\ resp[r][1].successful = Len(f)

\* C6 witness: three accepted items written in chunks of two and one
C6_Witness ==
    /\ Returned(1)
    /\ req[1].kind = "goal_progresses"
    /\ req[1].batch_size = 2
    /\ Len(filtered[1]) = 3
    /\ ChunkErrors(resp[1][1]) = {}
    /\ resp[1][1].batches_processed = 2
    /\ Len(chunks[1]) = 2 /\ Len(chunks[1][2]) = 1

\* C7: in the imports of keyed entities every later occurrence of a key in
\* the request has a per-item error and is not written, and, when nothing
\* else goes wrong, the valid items with keys that are new and not repeated
\* are created.
C7_RepeatedKeyRejectedPerItem ==
    \A r \in Requests :
        (Returned(r) /\ req[r].kind \in KeyedKinds) =>
            LET k == req[r].kind
                its == req[r].items
                l == resp[r][1]
            IN  /\ \A j \in 1..Len(its) :
                      LaterOccurrence(r, j) =>
                          ItemErrors(l, j) # {} /\ ~InSomeChunk(r, j)
                /\ (apiWrites = 0 /\ raised[r] # "other"
                      /\ \A n \in ChunkErrors(l) : l.errors[n].type # "bulk_create_error") =>
                      \A j \in 1..Len(its) :
                          ( /\ its[j].v = "ok"
                            /\ k = "users" => UsernameOk(its[j].key)
                            /\ NormKey(k, its[j].key) \notin stored0[r]
                            /\ \A i \in 1..Len(its) :
                                  i # j => NormKey(k, its[i].key) # NormKey(k, its[j].key) )
                          => \E row \in BatchRows(k) : row.key = StoredKey(k, its[j].key)

\* C8: in the imports of keyed entities a valid item whose key a stored row
\* had when the request arrived is not written and has a per-item error of
\* type duplicate_error.
C8_ExistingKeyIsDuplicateError ==
    \A r \in Requests :
        (Returned(r) /\ req[r].kind \in KeyedKinds) =>
            \A j \in 1..Len(req[r].items) :
                ( /\ req[r].items[j].v = "ok"
                  /\ ~LaterOccurrence(r, j)
                  /\ NormKey(req[r].kind, req[r].items[j].key) \in stored0[r] )
                => /\ ~InSomeChunk(r, j)
                   /\ \E n \in ItemErrors(resp[r][1], j) :
                         resp[r][1].errors[n].type = "duplicate_error"

\* C9: created_ids of every response and BatchLog row has one entry per
\* created record, successful of them, and they are the ids of the rows the
\* import has stored.
C9_CreatedIdsAreTheCreatedRows ==
    /\ \A r \in Requests :
          Returned(r) =>
              LET l == resp[r][1]
              IN  /\ Len(l.created_ids) = l.successful
                  /\ (\A q \in Requests \ {r} : pc[q] = "off") =>
                        {l.created_ids[i] : i \in 1..Len(l.created_ids)} =
                        {row.id : row \in BatchRows(req[r].kind)}
    /\ \A b \in batchLogs : Len(b.created_ids) = b.successful

\* C10: a request that presents a token a logout was made with is never
\* accepted by an endpoint documented as requiring a valid token, and the
\* token stays inactive.
C10_LoggedOutTokenRejected ==
    /\ (last.status = "200" /\ DocumentedValidToken(last.ep) /\ last.ep # "logout") =>
          last.header \notin loggedOut
    /\ \A k \in loggedOut : ~(tokens[k].state = "stored" /\ tokens[k].is_active)

\* a step that is one request to an endpoint whose first permission class is
\* HasValidToken
GuardedCallStep ==
    /\ now' = now
    /\ last'.ep \in Endpoints
    /\ HasValidTokenFirst(last'.ep)
    /\ <<tokens', last', audit', rows', appUserId', loggedOut'>> #
       <<tokens, last, audit, rows, appUserId, loggedOut>>

ActiveFlags(tk) == [k \in TokenKeys |-> tk[k].is_active]

\* C11: a token is issued with expires_at 24 hours ahead; at an endpoint
\* guarded by HasValidToken an active token that has not expired passes the
\* guard, an active token with expires_at < now is refused and that use sets
\* its is_active to false (and no other token's), and a request with no
\* token, an unknown key or an inactive token is refused with every token's
\* is_active unchanged.
C11_ExpiredTokenRejectedAndDeactivated ==
    [][GuardedCallStep =>
         LET h == last'.header IN
         IF h = NULL \/ ~IsTokenRow(tokens[h]) \/ ~tokens[h].is_active
         THEN last'.status = "401" /\ ActiveFlags(tokens') = ActiveFlags(tokens)
         ELSE IF tokens[h].expires_at < now
         THEN /\ last'.status = "401"
              /\ ActiveFlags(tokens') = [ActiveFlags(tokens) EXCEPT ![h] = FALSE]
         ELSE /\ last'.status \in {"200", "403"}
              /\ now <= tokens[h].expires_at
              /\ tokens[h].expires_at <= now + ExpiresHours]_vars

\* C11 witness: a token that nobody logged out was refused after its
\* expiry and is now inactive
C11_Witness ==
    /\ last.ep = "users_list" /\ last.status = "401"
    /\ last.header # NULL
    /\ IsTokenRow(tokens[last.header])
    /\ last.header \notin loggedOut
    /\ tokens[last.header].expires_at < now
    /\ ~tokens[last.header].is_active


\* C17: the challenge import hands the accepted challenges to bulk_create in
\* slices of at most batch_size, and a request that returned without a chunk
\* raising reports batches_processed = ceil(accepted / batch_size).
C17_ChallengesChunked ==
    \A r \in Requests :
        (pc[r] # "off" /\ req[r].kind = "challenges") =>
            LET bs == req[r].batch_size
                f == filtered[r]
            IN  /\ \A i \in 1..Len(chunks[r]) : Len(chunks[r][i]) <= bs
                /\ (Returned(r) /\ ChunkErrors(resp[r][1]) = {} /\ Len(f) > 0) =>
                      /\ Len(chunks[r]) = Ceil(Len(f), bs)
                      /\ resp[r][1].batches_processed = Ceil(Len(f), bs)

\* a step that is one login request
LoginStep ==
    /\ last'.ep = "login"
    /\ <<tokens', last', audit'>> # <<tokens, last, audit>>

\* C12: a login whose username is stored, whose password matches and whose
\* user is active answers 200 and adds exactly one token row, active, bound
\* to that user and expiring 24 hours later; every other login answers 401
\* and changes no stored row; in both cases the rows of the tokens that
\* existed stay as they were.
C12_LoginCreatesOneToken ==
    [][LoginStep =>
         LET u == last'.user
             changed == {k \in TokenKeys : tokens'[k] # tokens[k]}
         IN  IF u \in DOMAIN accounts /\ last'.password = "right" /\ accounts[u].is_active
             THEN /\ last'.status = "200"
                  /\ Cardinality(changed) = 1
                  /\ \A k \in changed :
                        /\ tokens[k].state = "none"
                        /\ tokens'[k] = [state |-> "stored", user |-> u,
                                         is_active |-> TRUE, expires_at |-> now + 24]
             ELSE /\ last'.status = "401"
                  /\ tokens' = tokens
                  /\ UNCHANGED <<rows, accounts, audit, batchLogs>>]_vars

\* C12 witness: a user who logged in before and was then deactivated is
\* refused with the right password
C12_Witness ==
    /\ last.ep = "login" /\ last.status = "401"
    /\ last.user \in DOMAIN accounts
    /\ last.password = "right"
    /\ ~accounts[last.user].is_active
    /\ \E k \in TokenKeys : IsTokenRow(tokens[k]) /\ tokens[k].user = last.user

\* C13: while every request is made without a token or with the token of a
\* user who is not an admin (registration, login, profile update, password
\* change, change_role, users import), the seeded users keep their roles,
\* every user created has the role user, and no users import is admitted.
C13_RolesChangeOnlyByAdmin ==
    /\ accounts[1].role = "admin"
    /\ accounts[2].role = "user"
    /\ \A u \in DOMAIN accounts \ UserIds : accounts[u].role = "user"
    /\ \A r \in Requests : requester[r] = NULL /\ pc[r] \in {"off", "arrive", "refused"}

\* C13 witness: a user who is not an admin asked change_role with a valid
\* token and was refused, after a registration
C13_Witness ==
    /\ last.ep = "change_role" /\ last.status = "403"
    /\ last.header # NULL
    /\ IsTokenRow(tokens[last.header]) /\ tokens[last.header].is_active
    /\ accounts[tokens[last.header].user].role = "user"
    /\ DOMAIN accounts # UserIds

\* C14: whatever registrations, profile updates, change_role requests and
\* users imports have run, the role of every stored user is user or admin.
C14_RolesAreUserOrAdmin ==
    \A u \in DOMAIN accounts : accounts[u].role \in {"user", "admin"}

SymDiff(A, B) == (A \ B) \cup (B \ A)

ListRoutes == {"users_list"} \cup
              {Route(o, act) : o \in ObjectKinds, act \in {"list", "user", "category"}}

\* the stored rows a listing route ranges over, before any filter
Listable(ep, arg) ==
    IF ep = "users_list"
    THEN {[kind |-> "users", id |-> v, user |-> v, is_public |-> accounts[v].is_public] :
             v \in DOMAIN accounts}
    ELSE LET o == IF ep \in {"goals_list", "goals_user", "goals_category"}
                  THEN "goals" ELSE "habits"
         IN  IF ep \in {"goals_user", "habits_user"}
             THEN {x \in ObjectsOf(o) : x.user = arg}
             ELSE ObjectsOf(o)

\* C16: a listing of users, of goals or habits, of the goals or habits of a
\* category, or of the goals or habits of another user, answered to a
\* requester who is not an admin, contains no row whose is_public is false;
\* answered to an admin it contains every row the route ranges over, the
\* private ones included.
C16_ListingsHidePrivate ==
    [][(last'.ep \in ListRoutes /\ last'.status = "200") =>
         LET u == tokens[last'.header].user
             own == last'.ep \in {"goals_user", "habits_user"} /\ last'.user = u
         IN  /\ listed'.user = u
             /\ listed'.items \subseteq Listable(last'.ep, last'.user)
             /\ IF accounts[u].role = "admin"
                THEN listed'.items = Listable(last'.ep, last'.user)
                ELSE own \/ \A x \in listed'.items : x.is_public]_vars

\* C16 witness: a user who is not an admin listed the goals of another user
\* who has a private goal, and the users while a user is private
C16_Witness ==
    /\ last.ep = "goals_user" /\ last.status = "200"
    /\ ~listed.admin
    /\ last.user # listed.user
    /\ \E x \in owned : x.kind = "goals" /\ x.user = last.user /\ ~x.is_public
    /\ listed.items = {}
    /\ \E v \in DOMAIN accounts : ~accounts[v].is_public

====
